---- MODULE Spec2Model ----
(***************************************************************************)
(* jaxopt/base.py: LinearOperator (a dense matrix A with forward/adjoint   *)
(* products, element queries, incremental product updates and column       *)
(* norms) and CompositeLinearFunction (subfun(A x, params) + vdot(x, b)).  *)
(*                                                                         *)
(* Arrays are records [shape, data]: shape is the tuple jnp reports, data  *)
(* is an integer (rank 0) or a function over 0-based indices (rank 1: an   *)
(* entry per index, rank 2: a row per index).  Entries are integers, so    *)
(* products and sums are exact.  An optional value (Python None or a       *)
(* value) is the empty set or a singleton.                                 *)
(***************************************************************************)
EXTENDS Integers, Sequences, FiniteSets

VARIABLES
  A,      \* LinearOperator.A
  fun,    \* the CompositeLinearFunction held by the caller (it shares A)
  b_arg,  \* the b the caller passed to CompositeLinearFunction.__init__
  ret,    \* the call in progress: operation, arguments and outcome
  x,      \* solver loop: the current iterate
  cache,  \* solver loop: the cached product dot(A, x)
  hist    \* solver loop: the <<idx, delta>> steps taken so far

vars == <<A, fun, b_arg, ret, x, cache, hist>>

(***************************************************************************)
(* Bounds of the model.                                                    *)
(***************************************************************************)
MaxBatch == 2   \* batched right-hand sides have 1..MaxBatch columns
MaxIdx == 4     \* element queries are asked at indices -MaxIdx..MaxIdx
MaxRank == 3    \* arrays handed to the update operations have rank 0..MaxRank
MaxBLen == 3    \* the offset b handed to the constructor has length 1..MaxBLen
MaxSteps == 3   \* the solver loop takes at most MaxSteps coordinate steps

(***************************************************************************)
(* Arrays and the jax.numpy operations the source uses.                    *)
(***************************************************************************)
None == {}
Some(v) == {v}
Get(o) == CHOOSE v \in o : TRUE

Array(shape, data) == [shape |-> shape, data |-> data]
Rank(a) == Len(a.shape)

RECURSIVE SumTo(_, _)
\* f[0] + ... + f[k-1]
SumTo(f, k) == IF k = 0 THEN 0 ELSE SumTo(f, k - 1) + f[k - 1]

\* jnp.array of a list of numbers, or of a list of equally long rows
jnp_array_1d(list) ==
  Array(<<Len(list)>>, [i \in 0..Len(list) - 1 |-> list[i + 1]])

jnp_array_2d(rows) ==
  Array(<<Len(rows), Len(rows[1])>>,
        [i \in 0..Len(rows) - 1 |->
           [j \in 0..Len(rows[1]) - 1 |-> rows[i + 1][j + 1]]])

\* a negative index counts from the end of the axis
WrapIndex(idx, size) == IF idx < 0 THEN idx + size ELSE idx

\* a[idx] of a rank-2 array: row idx, a vector
GetRow(a, idx) ==
  Array(<<a.shape[2]>>, a.data[WrapIndex(idx, a.shape[1])])

\* a[:, idx] of a rank-2 array: column idx, a vector
GetCol(a, idx) ==
  Array(<<a.shape[1]>>,
        [i \in 0..a.shape[1] - 1 |-> a.data[i][WrapIndex(idx, a.shape[2])]])

\* a.T of a rank-2 array
Transpose(a) ==
  Array(<<a.shape[2], a.shape[1]>>,
        [j \in 0..a.shape[2] - 1 |-> [i \in 0..a.shape[1] - 1 |-> a.data[i][j]]])

\* jnp.dot: vector.vector, matrix.vector and matrix.matrix
jnp_dot(a, c) ==
  IF Rank(a) = 1
  THEN Array(<<>>, SumTo([k \in 0..a.shape[1] - 1 |-> a.data[k] * c.data[k]],
                         a.shape[1]))
  ELSE IF Rank(c) = 1
  THEN Array(<<a.shape[1]>>,
             [i \in 0..a.shape[1] - 1 |->
                SumTo([k \in 0..a.shape[2] - 1 |-> a.data[i][k] * c.data[k]],
                      a.shape[2])])
  ELSE Array(<<a.shape[1], c.shape[2]>>,
             [i \in 0..a.shape[1] - 1 |->
                [j \in 0..c.shape[2] - 1 |->
                   SumTo([k \in 0..a.shape[2] - 1 |-> a.data[i][k] * c.data[k][j]],
                         a.shape[2])]])

\* jnp.outer of two vectors
jnp_outer(u, v) ==
  Array(<<u.shape[1], v.shape[1]>>,
        [i \in 0..u.shape[1] - 1 |->
           [j \in 0..v.shape[1] - 1 |-> u.data[i] * v.data[j]]])

\* a + c of two arrays of the same shape (rank 0, 1 or 2)
Add(a, c) ==
  IF Rank(a) = 0 THEN Array(a.shape, a.data + c.data)
  ELSE IF Rank(a) = 1
  THEN Array(a.shape, [i \in 0..a.shape[1] - 1 |-> a.data[i] + c.data[i]])
  ELSE Array(a.shape,
             [i \in 0..a.shape[1] - 1 |->
                [j \in 0..a.shape[2] - 1 |-> a.data[i][j] + c.data[i][j]]])

\* s * v of a scalar (rank 0) and a vector: the scalar is broadcast
Mul(s, v) ==
  Array(v.shape, [i \in 0..v.shape[1] - 1 |-> s.data * v.data[i]])

\* jnp.sum(a ** 2, axis=0) of a rank-2 array: one sum per column
SumSquaresAxis0(a) ==
  Array(<<a.shape[2]>>,
        [j \in 0..a.shape[2] - 1 |->
           SumTo([i \in 0..a.shape[1] - 1 |-> a.data[i][j] * a.data[i][j]],
                 a.shape[1])])

\* jnp.sqrt, elementwise; the root of v is kept as the exact term sqrt(v)
jnp_sqrt(v) ==
  Array(v.shape, [i \in 0..v.shape[1] - 1 |-> [sqrt_of |-> v.data[i]]])

\* the outcome of a call: a returned value or a raised error kind
Ok(v) == [kind |-> "ok", val |-> v]
Raise(e) == [kind |-> e]

(***************************************************************************)
(* LinearOperator                                                          *)
(***************************************************************************)
\* __init__: self.A = jnp.array(A)
LinearOperator(rows) == jnp_array_2d(rows)

shape(self) == self.shape

\* dot(A, x)
matvec(self, v) == jnp_dot(self, v)

\* what indexing outside an axis does is the array library's choice:
\* IndexError is raised, or the index is clamped to the axis
OutOfBounds == {"IndexError", "clamp"}

InAxis(idx, size) == -size <= idx /\ idx < size

ClampIndex(i, size) == IF i < 0 THEN 0 ELSE IF i >= size THEN size - 1 ELSE i

\* variant: a negative index is refused instead of counting from the end
matvec_element_no_wrap(self, v, idx, oob) ==
  IF 0 <= idx /\ idx < self.shape[1]
  THEN Ok(jnp_dot(GetRow(self, idx), v))
  ELSE Raise("IndexError")

\* dot(A[idx], x)
matvec_element(self, v, idx, oob) ==
  IF InAxis(idx, self.shape[1])
  THEN Ok(jnp_dot(GetRow(self, idx), v))
  ELSE IF oob = "clamp"
  THEN Ok(jnp_dot(GetRow(self, ClampIndex(WrapIndex(idx, self.shape[1]),
                                          self.shape[1])), v))
  ELSE Raise("IndexError")

\* dot(A.T, x)
rmatvec(self, v) == jnp_dot(Transpose(self), v)

\* variant: the index is taken as 1-based, A[:, idx - 1]
rmatvec_element_one_based(self, v, idx, oob) ==
  IF 0 <= idx /\ idx < self.shape[2]
  THEN Ok(jnp_dot(GetCol(self, idx - 1), v))
  ELSE IF InAxis(idx, self.shape[2])
  THEN Ok(jnp_dot(GetCol(self, idx), v))
  ELSE IF oob = "clamp"
  THEN Ok(jnp_dot(GetCol(self, ClampIndex(WrapIndex(idx, self.shape[2]),
                                          self.shape[2])), v))
  ELSE Raise("IndexError")

\* dot(A[:, idx], x)
rmatvec_element(self, v, idx, oob) ==
  IF InAxis(idx, self.shape[2])
  THEN Ok(jnp_dot(GetCol(self, idx), v))
  ELSE IF oob = "clamp"
  THEN Ok(jnp_dot(GetCol(self, ClampIndex(WrapIndex(idx, self.shape[2]),
                                          self.shape[2])), v))
  ELSE Raise("IndexError")

\* variant: the vector update adds the column without scaling it by delta
update_matvec_unscaled(self, Ax, delta, idx) ==
  IF Rank(Ax) = 1
  THEN Ok(Add(Ax, GetCol(self, idx)))
  ELSE IF Rank(Ax) = 2
  THEN Ok(Add(Ax, jnp_outer(GetCol(self, idx), delta)))
  ELSE Raise("ValueError")

\* variant: the batched update perturbs every column by the first delta
update_matvec_first_delta(self, Ax, delta, idx) ==
  IF Rank(Ax) = 1
  THEN Ok(Add(Ax, Mul(delta, GetCol(self, idx))))
  ELSE IF Rank(Ax) = 2
  THEN Ok(Add(Ax, jnp_outer(GetCol(self, idx),
                            Array(delta.shape,
                                  [j \in 0..delta.shape[1] - 1 |-> delta.data[0]]))))
  ELSE Raise("ValueError")

\* variant: the update always adds column 0, whatever idx is
update_matvec_column_zero(self, Ax, delta, idx) ==
  IF Rank(Ax) = 1
  THEN Ok(Add(Ax, Mul(delta, GetCol(self, 0))))
  ELSE IF Rank(Ax) = 2
  THEN Ok(Add(Ax, jnp_outer(GetCol(self, 0), delta)))
  ELSE Raise("ValueError")

\* updates dot(A, x) when x[idx] += delta
update_matvec(self, Ax, delta, idx) ==
  IF Rank(Ax) = 1
  THEN Ok(Add(Ax, Mul(delta, GetCol(self, idx))))
  ELSE IF Rank(Ax) = 2
  THEN Ok(Add(Ax, jnp_outer(GetCol(self, idx), delta)))
  ELSE Raise("ValueError")

\* variant: the vector update subtracts the scaled row
update_rmatvec_negated(self, ATx, delta, idx) ==
  IF Rank(ATx) = 1
  THEN Ok(Add(ATx, Mul(Array(<<>>, 0 - delta.data), GetRow(self, idx))))
  ELSE IF Rank(ATx) = 2
  THEN Raise("NotImplementedError")
  ELSE Raise("ValueError")

\* variant: the matrix case is answered with the formula of update_matvec
update_rmatvec_batched(self, ATx, delta, idx) ==
  IF Rank(ATx) = 1
  THEN Ok(Add(ATx, Mul(delta, GetRow(self, idx))))
  ELSE IF Rank(ATx) = 2
  THEN Ok(Add(ATx, jnp_outer(GetRow(self, idx), delta)))
  ELSE Raise("ValueError")

\* updates dot(A.T, x) when x[idx] += delta
update_rmatvec(self, ATx, delta, idx) ==
  IF Rank(ATx) = 1
  THEN Ok(Add(ATx, Mul(delta, GetRow(self, idx))))
  ELSE IF Rank(ATx) = 2
  THEN Raise("NotImplementedError")
  ELSE Raise("ValueError")

column_l2_norms(self, squared) ==
  IF squared THEN SumSquaresAxis0(self) ELSE jnp_sqrt(SumSquaresAxis0(self))

(***************************************************************************)
(* CompositeLinearFunction.  subfun and lipschitz_fun are callables the    *)
(* caller supplies; two outer functions and one curvature function stand   *)
(* for them.  linop is the shared operator, the variable A.                *)
(***************************************************************************)

\* the pairs <<subfun, lipschitz_fun>> a caller passes: an outer function
\* without a curvature function, and one with
Callables == {<<"linear", None>>, <<"square", Some("twice")>>}

\* subfun(z, params): params * sum(z), or sum(z ** 2) + params
ApplySubfun(name, z, params) ==
  IF name = "linear"
  THEN Array(<<>>, params * SumTo(z.data, z.shape[1]))
  ELSE Array(<<>>, SumTo([i \in 0..z.shape[1] - 1 |-> z.data[i] * z.data[i]],
                         z.shape[1]) + params)

\* lipschitz_fun(params): the scalar 2 * params
ApplyLipschitzFun(name, params) == Array(<<>>, 2 * params)

\* variant: the offset is not kept
CompositeLinearFunction_drops_b(subfun, b, lipschitz_fun) ==
  [subfun |-> subfun, b |-> None, lipschitz_fun |-> lipschitz_fun]

\* __init__: b is converted with jnp.array when it is not None
CompositeLinearFunction(subfun, b, lipschitz_fun) ==
  [subfun |-> subfun,
   b |-> IF b # None THEN Some(jnp_array_1d(Get(b))) ELSE b,
   lipschitz_fun |-> lipschitz_fun]

\* variant: the offset term is vdot(x, x)
call_offset_of_x(self, linop, v, params_fun) ==
  IF self.b = None
  THEN Ok(ApplySubfun(self.subfun, matvec(linop, v), params_fun))
  ELSE IF v.shape # Get(self.b).shape
  THEN Raise("TypeError")
  ELSE Ok(Add(ApplySubfun(self.subfun, matvec(linop, v), params_fun),
              jnp_dot(v, v)))

\* __call__: subfun(linop.matvec(x), params_fun) [+ vdot(x, b)];
\* jnp.vdot of vectors of different lengths raises TypeError
call(self, linop, v, params_fun) ==
  IF self.b = None
  THEN Ok(ApplySubfun(self.subfun, matvec(linop, v), params_fun))
  ELSE IF v.shape # Get(self.b).shape
  THEN Raise("TypeError")
  ELSE Ok(Add(ApplySubfun(self.subfun, matvec(linop, v), params_fun),
              jnp_dot(v, Get(self.b))))

\* jnp arrays are immutable: ret *= s binds ret to the new array ret * s
column_lipschitz_constants(self, linop, params_fun) ==
  IF self.lipschitz_fun # None
  THEN Mul(ApplyLipschitzFun(Get(self.lipschitz_fun), params_fun),
           column_l2_norms(linop, TRUE))
  ELSE column_l2_norms(linop, TRUE)

(***************************************************************************)
(* Inputs of the calls.                                                    *)
(***************************************************************************)
MatrixInputs ==
  { << <<1, 0>>, <<0, 1>>, <<1, 1>> >>,
    << <<2, -1>> >>,
    << <<-1, 3>>, <<2, 1>> >>,
    << <<1, -1, 2>>, <<0, 3, 1>> >>,
    << <<3>>, <<-2>> >> }

Scalars == {-1, 0, 2}
BatchScalars == {-1, 2}
Params == {1, 3}

Vectors(n) == {Array(<<n>>, f) : f \in [0..n - 1 -> Scalars]}
Deltas == {Array(<<>>, d) : d \in Scalars}
Batches(n, k) == {Array(<<n, k>>, f) : f \in [0..n - 1 -> [0..k - 1 -> BatchScalars]]}
BatchDeltas(k) == {Array(<<k>>, f) : f \in [0..k - 1 -> BatchScalars]}

RECURSIVE Nested(_)
Nested(r) == IF r = 0 THEN 0 ELSE [i \in 0..0 |-> Nested(r - 1)]
\* an array of rank r that is neither a vector nor a matrix
OtherRank(r) == Array([i \in 1..r |-> 1], Nested(r))
OtherRanks == {r \in 0..MaxRank : r # 1 /\ r # 2}

\* the lists <<0, ..., 0>> and <<1, 2, ..., l>> a caller passes as b
BLists == {[i \in 1..l |-> c * i] : l \in 1..MaxBLen, c \in {0, 1}}

\* x[idx] += delta, the caller's coordinate step on a vector
AddAt(v, idx, delta) ==
  Array(v.shape, [v.data EXCEPT ![idx] = v.data[idx] + delta.data])

NoArr == Array(<<>>, 0)

Rec(op, v, arr, delta, idx, params, squared, out) ==
  [op |-> op, x |-> v, arr |-> arr, delta |-> delta, idx |-> idx,
   params |-> params, squared |-> squared, out |-> out]

\* no call in progress
Idle == Rec("none", NoArr, NoArr, NoArr, 0, 0, FALSE, Ok(NoArr))

(***************************************************************************)
(* The objects after construction, and one action per operation.  A call   *)
(* starts when no call is in progress; Return drops its outcome.           *)
(***************************************************************************)
Init ==
  /\ \E rows \in MatrixInputs : A = LinearOperator(rows)
  /\ b_arg \in {None} \cup {Some(l) : l \in BLists}
  /\ \E c \in Callables : fun = CompositeLinearFunction(c[1], b_arg, c[2])
  /\ ret = Idle
  /\ x = NoArr
  /\ cache = NoArr
  /\ hist = << >>

Shape ==
  /\ ret = Idle
  /\ ret' = Rec("shape", NoArr, NoArr, NoArr, 0, 0, FALSE, Ok(shape(A)))
  /\ UNCHANGED <<A, fun, b_arg, x, cache, hist>>

\* matvec of a vector, or of a batch of right-hand-side columns
Matvec ==
  /\ ret = Idle
  /\ \/ \E v \in Vectors(A.shape[2]) :
          ret' = Rec("matvec", v, NoArr, NoArr, 0, 0, FALSE, Ok(matvec(A, v)))
     \/ \E k \in 1..MaxBatch : \E v \in Batches(A.shape[2], k) :
          ret' = Rec("matvec", v, NoArr, NoArr, 0, 0, FALSE, Ok(matvec(A, v)))
  /\ UNCHANGED <<A, fun, b_arg, x, cache, hist>>

\* matvec_element at an index inside the row axis (negative ones included),
\* or at one outside it
MatvecElement ==
  /\ ret = Idle
  /\ \E oob \in OutOfBounds, v \in Vectors(A.shape[2]) :
       \/ \E idx \in -A.shape[1]..A.shape[1] - 1 :
            ret' = Rec("matvec_element", v, NoArr, NoArr, idx, 0, FALSE,
                       matvec_element(A, v, idx, oob))
       \/ \E idx \in (-MaxIdx..MaxIdx) \ (-A.shape[1]..A.shape[1] - 1) :
            ret' = Rec("matvec_element", v, NoArr, NoArr, idx, 0, FALSE,
                       matvec_element(A, v, idx, oob))
  /\ UNCHANGED <<A, fun, b_arg, x, cache, hist>>

Rmatvec ==
  /\ ret = Idle
  /\ \/ \E v \in Vectors(A.shape[1]) :
          ret' = Rec("rmatvec", v, NoArr, NoArr, 0, 0, FALSE, Ok(rmatvec(A, v)))
     \/ \E k \in 1..MaxBatch : \E v \in Batches(A.shape[1], k) :
          ret' = Rec("rmatvec", v, NoArr, NoArr, 0, 0, FALSE, Ok(rmatvec(A, v)))
  /\ UNCHANGED <<A, fun, b_arg, x, cache, hist>>

RmatvecElement ==
  /\ ret = Idle
  /\ \E oob \in OutOfBounds, v \in Vectors(A.shape[1]) :
       \/ \E idx \in -A.shape[2]..A.shape[2] - 1 :
            ret' = Rec("rmatvec_element", v, NoArr, NoArr, idx, 0, FALSE,
                       rmatvec_element(A, v, idx, oob))
       \/ \E idx \in (-MaxIdx..MaxIdx) \ (-A.shape[2]..A.shape[2] - 1) :
            ret' = Rec("rmatvec_element", v, NoArr, NoArr, idx, 0, FALSE,
                       rmatvec_element(A, v, idx, oob))
  /\ UNCHANGED <<A, fun, b_arg, x, cache, hist>>

\* update_matvec of the cached product of a vector with a scalar delta, of
\* the cached product of a batch with one delta per column, or of an array of
\* another rank
UpdateMatvec ==
  /\ ret = Idle
  /\ \E idx \in 0..A.shape[2] - 1 :
       \/ \E v \in Vectors(A.shape[2]), delta \in Deltas :
            ret' = Rec("update_matvec", v, matvec(A, v), delta, idx, 0, FALSE,
                       update_matvec(A, matvec(A, v), delta, idx))
       \/ \E k \in 1..MaxBatch :
            \E v \in Batches(A.shape[2], k), delta \in BatchDeltas(k) :
              ret' = Rec("update_matvec", v, matvec(A, v), delta, idx, 0, FALSE,
                         update_matvec(A, matvec(A, v), delta, idx))
       \/ \E r \in OtherRanks, delta \in Deltas :
            ret' = Rec("update_matvec", NoArr, OtherRank(r), delta, idx, 0, FALSE,
                       update_matvec(A, OtherRank(r), delta, idx))
  /\ UNCHANGED <<A, fun, b_arg, x, cache, hist>>

UpdateRmatvec ==
  /\ ret = Idle
  /\ \E idx \in 0..A.shape[1] - 1 :
       \/ \E v \in Vectors(A.shape[1]), delta \in Deltas :
            ret' = Rec("update_rmatvec", v, rmatvec(A, v), delta, idx, 0, FALSE,
                       update_rmatvec(A, rmatvec(A, v), delta, idx))
       \/ \E k \in 1..MaxBatch :
            \E v \in Batches(A.shape[1], k), delta \in BatchDeltas(k) :
              ret' = Rec("update_rmatvec", v, rmatvec(A, v), delta, idx, 0, FALSE,
                         update_rmatvec(A, rmatvec(A, v), delta, idx))
       \/ \E r \in OtherRanks, delta \in Deltas :
            ret' = Rec("update_rmatvec", NoArr, OtherRank(r), delta, idx, 0, FALSE,
                       update_rmatvec(A, OtherRank(r), delta, idx))
  /\ UNCHANGED <<A, fun, b_arg, x, cache, hist>>

ColumnL2Norms ==
  /\ ret = Idle
  /\ \E squared \in BOOLEAN :
       ret' = Rec("column_l2_norms", NoArr, NoArr, NoArr, 0, 0, squared,
                  Ok(column_l2_norms(A, squared)))
  /\ UNCHANGED <<A, fun, b_arg, x, cache, hist>>

Call ==
  /\ ret = Idle
  /\ \E v \in Vectors(A.shape[2]), params \in Params :
       ret' = Rec("call", v, NoArr, NoArr, 0, params, FALSE,
                  call(fun, A, v, params))
  /\ UNCHANGED <<A, fun, b_arg, x, cache, hist>>

\* variant: the scaling is applied to the operator's matrix in place
ColumnLipschitzConstants_in_place ==
  /\ ret = Idle
  /\ \E params \in Params :
       /\ ret' = Rec("column_lipschitz_constants", NoArr, NoArr, NoArr, 0, params,
                     FALSE, Ok(column_lipschitz_constants(fun, A, params)))
       /\ A' = IF fun.lipschitz_fun # None
               THEN Array(A.shape,
                          [i \in 0..A.shape[1] - 1 |->
                             Mul(ApplyLipschitzFun(Get(fun.lipschitz_fun), params),
                                 GetRow(A, i)).data])
               ELSE A
  /\ UNCHANGED <<fun, b_arg, x, cache, hist>>

ColumnLipschitzConstants ==
  /\ ret = Idle
  /\ \E params \in Params :
       ret' = Rec("column_lipschitz_constants", NoArr, NoArr, NoArr, 0, params,
                  FALSE, Ok(column_lipschitz_constants(fun, A, params)))
  /\ UNCHANGED <<A, fun, b_arg, x, cache, hist>>

Return ==
  /\ ret # Idle
  /\ ret' = Idle
  /\ UNCHANGED <<A, fun, b_arg, x, cache, hist>>

Next ==
  \/ Shape
  \/ Matvec
  \/ MatvecElement
  \/ Rmatvec
  \/ RmatvecElement
  \/ UpdateMatvec
  \/ UpdateRmatvec
  \/ ColumnL2Norms
  \/ Call
  \/ ColumnLipschitzConstants
  \/ Return

Spec == Init /\ [][Next]_vars

(***************************************************************************)
(* The solver loop of a caller: it keeps the product dot(A, x) cached and  *)
(* advances x one coordinate at a time.                                    *)
(***************************************************************************)
InitCD ==
  /\ \E rows \in MatrixInputs : A = LinearOperator(rows)
  /\ b_arg = None
  /\ fun = CompositeLinearFunction("linear", None, None)
  /\ ret = Idle
  /\ x \in Vectors(A.shape[2])
  /\ cache = matvec(A, x)
  /\ hist = << >>

CDStep ==
  /\ Len(hist) < MaxSteps
  /\ \E idx \in 0..A.shape[2] - 1, delta \in Deltas :
       /\ x' = AddAt(x, idx, delta)
       /\ cache' = update_matvec(A, cache, delta, idx).val
       /\ hist' = Append(hist, <<idx, delta.data>>)
  /\ UNCHANGED <<A, fun, b_arg, ret>>

NextCD == CDStep

SpecCD == InitCD /\ [][NextCD]_vars

(***************************************************************************)
(* Properties.                                                             *)
(***************************************************************************)
\* v[i] of a vector, a rank-0 array
At(v, i) == Array(<<>>, v.data[i])

\* column c of a batch, a vector
ColumnOf(m, c) == Array(<<m.shape[1]>>, [i \in 0..m.shape[1] - 1 |-> m.data[i][c]])

\* C1: with Ax0 = matvec(x), update_matvec(Ax0, delta, idx) of a vector Ax0
\* and a scalar delta equals matvec of x with x[idx] increased by delta.
C1_UpdateMatvecVector ==
  (ret.op = "update_matvec" /\ Rank(ret.arr) = 1)
    => ret.out = Ok(matvec(A, AddAt(ret.x, ret.idx, ret.delta)))

C1_Witness ==
  /\ ret.op = "update_matvec"
  /\ Rank(ret.arr) = 1
  /\ ret.arr = matvec(A, ret.x)
  /\ ret.delta.data = 2
  /\ ret.idx = 1
  /\ ret.out.kind = "ok"
  /\ ret.out.val # ret.arr

\* C2: with AX = matvec(X) of a batch X, update_matvec(AX, delta, idx) with a
\* vector delta has, as its column c, matvec of column c of X with its
\* coordinate idx increased by delta[c].
C2_UpdateMatvecBatch ==
  (ret.op = "update_matvec" /\ Rank(ret.arr) = 2)
    => /\ ret.out.kind = "ok"
       /\ ret.out.val.shape = <<A.shape[1], ret.x.shape[2]>>
       /\ \A c \in 0..ret.x.shape[2] - 1 :
            ColumnOf(ret.out.val, c)
              = matvec(A, AddAt(ColumnOf(ret.x, c), ret.idx, At(ret.delta, c)))

C2_Witness ==
  /\ ret.op = "update_matvec"
  /\ Rank(ret.arr) = 2
  /\ ret.x.shape[2] = 2
  /\ ret.arr = matvec(A, ret.x)
  /\ ret.delta.data[0] # ret.delta.data[1]
  /\ ret.out.kind = "ok"
  /\ ColumnOf(ret.out.val, 0) # ColumnOf(ret.arr, 0)
  /\ ColumnOf(ret.out.val, 1) # ColumnOf(ret.arr, 1)

\* C3: with ATx0 = rmatvec(x), update_rmatvec(ATx0, delta, idx) of a vector
\* ATx0 is ATx0 + delta * A[idx, :] and equals rmatvec of x with x[idx]
\* increased by delta.
C3_UpdateRmatvecVector ==
  (ret.op = "update_rmatvec" /\ Rank(ret.arr) = 1)
    => /\ ret.out = Ok(rmatvec(A, AddAt(ret.x, ret.idx, ret.delta)))
       /\ ret.out = Ok(Add(ret.arr, Mul(ret.delta, Array(<<A.shape[2]>>, A.data[ret.idx]))))

C3_Witness ==
  /\ ret.op = "update_rmatvec"
  /\ Rank(ret.arr) = 1
  /\ ret.arr = rmatvec(A, ret.x)
  /\ A.shape[1] # A.shape[2]
  /\ ret.delta.data = -1
  /\ ret.idx = A.shape[1] - 1
  /\ ret.out.kind = "ok"
  /\ ret.out.val # ret.arr

\* C4: update_rmatvec of a rank-2 ATx ends in NotImplementedError and returns
\* no value; an ATx of a rank other than 1 and 2 ends in ValueError, another
\* outcome.
C4_UpdateRmatvecMatrix ==
  ret.op = "update_rmatvec"
    => /\ Rank(ret.arr) = 2 => ret.out = Raise("NotImplementedError")
       /\ Rank(ret.arr) \notin {1, 2} => ret.out = Raise("ValueError")
       /\ Rank(ret.arr) = 2 => ret.out.kind \notin {"ok", "ValueError"}

C4_Witness ==
  /\ ret.op = "update_rmatvec"
  /\ Rank(ret.arr) = 2
  /\ ret.arr = rmatvec(A, ret.x)
  /\ ret.out.kind = "NotImplementedError"

\* C5 as claimed: matvec_element(x, idx) returns a value exactly when
\* 0 <= idx < m, and fails with IndexError for every other idx, -1 included.
C5_IndexErrorOutsideRows ==
  ret.op = "matvec_element"
    => IF 0 <= ret.idx /\ ret.idx < A.shape[1]
       THEN ret.out.kind = "ok"
       ELSE ret.out.kind = "IndexError"

\* C5 as amended: matvec_element(x, idx) returns a value for every idx with
\* -m <= idx < m, the product of x with row idx, or with row m + idx when idx
\* is negative; it can fail, and then with IndexError, only when idx >= m or
\* idx < -m.
C5_NegativeIndexWraps ==
  ret.op = "matvec_element"
    => /\ (-A.shape[1] <= ret.idx /\ ret.idx < A.shape[1])
            => ret.out = Ok(At(matvec(A, ret.x),
                               IF ret.idx < 0 THEN A.shape[1] + ret.idx ELSE ret.idx))
       /\ ret.out.kind # "ok"
            => /\ ret.out.kind = "IndexError"
               /\ (ret.idx >= A.shape[1] \/ ret.idx < -A.shape[1])

C5_Witness ==
  /\ ret.op = "matvec_element"
  /\ ret.idx = -1
  /\ A.shape[1] = 3
  /\ ret.out.kind = "ok"
  /\ ret.out.val = At(matvec(A, ret.x), 2)
  /\ ret.out.val # At(matvec(A, ret.x), 0)

\* C6: matvec_element(x, i) equals matvec(x)[i] for every row index
\* 0 <= i < m, and rmatvec_element(y, j) equals rmatvec(y)[j] for every column
\* index 0 <= j < n.
C6_ElementsAgree ==
  /\ (ret.op = "matvec_element" /\ 0 <= ret.idx /\ ret.idx < A.shape[1])
       => ret.out = Ok(At(matvec(A, ret.x), ret.idx))
  /\ (ret.op = "rmatvec_element" /\ 0 <= ret.idx /\ ret.idx < A.shape[2])
       => ret.out = Ok(At(rmatvec(A, ret.x), ret.idx))

C6_Witness ==
  /\ ret.op = "rmatvec_element"
  /\ A.shape = <<3, 2>>
  /\ ret.idx = 1
  /\ ret.out.kind = "ok"
  /\ ret.out.val.data # 0
  /\ ret.out.val # At(rmatvec(A, ret.x), 0)

\* C7 as claimed: if b is present, its length is n, the column count of the
\* operator.
C7_BHasLengthN ==
  fun.b # None => Get(fun.b).shape = <<A.shape[2]>>

\* C7 as amended: the constructor keeps the b it was given, unchecked: b is
\* present exactly when one was passed, it then has the length and the
\* entries of the b passed, and so has length n exactly when the caller
\* passed a b of length n.
C7_BIsTheOnePassed ==
  /\ fun.b = None <=> b_arg = None
  /\ fun.b # None
       => /\ Get(fun.b).shape = <<Len(Get(b_arg))>>
          /\ \A i \in 0..Len(Get(b_arg)) - 1 : Get(fun.b).data[i] = Get(b_arg)[i + 1]
          /\ (Get(fun.b).shape = <<A.shape[2]>>) <=> (Len(Get(b_arg)) = A.shape[2])

C7_Witness ==
  /\ fun.b # None
  /\ Get(fun.b).shape # <<A.shape[2]>>
  /\ Get(fun.b).data[0] = 1
  /\ ret.op = "call"
  /\ ret.out.kind = "TypeError"

\* C8: evaluation with b absent and evaluation with b the zero vector of
\* length n give the same result, subfun(matvec(x), params).
C8_AbsentBIsZeroB ==
  (/\ ret.op = "call"
   /\ \/ fun.b = None
      \/ fun.b = Some(Array(<<A.shape[2]>>, [i \in 0..A.shape[2] - 1 |-> 0])))
    => ret.out = Ok(ApplySubfun(fun.subfun, matvec(A, ret.x), ret.params))

C8_Witness ==
  /\ ret.op = "call"
  /\ fun.b = Some(Array(<<A.shape[2]>>, [i \in 0..A.shape[2] - 1 |-> 0]))
  /\ A.shape[2] = 2
  /\ ret.x.data[0] # 0
  /\ ret.out.kind = "ok"
  /\ ret.out.val.data # 0

\* C9: no operation changes the operator's matrix A or the shape it reports.
C9_AUnchanged == [][A' = A /\ shape(A') = shape(A)]_vars

C9_Witness ==
  /\ ret.op = "column_lipschitz_constants"
  /\ fun.lipschitz_fun # None
  /\ ret.out.val # column_l2_norms(A, TRUE)
  /\ A \in {LinearOperator(rows) : rows \in MatrixInputs}

\* C10: in every state of the solver loop the cache equals matvec of the
\* current x, whatever indices the steps chose and however often.
C10_CacheIsProduct == cache = matvec(A, x)

C10_Witness ==
  /\ Len(hist) = 3
  /\ hist[1][1] = hist[3][1]
  /\ hist[2][1] # hist[1][1]
  /\ \A k \in 1..3 : hist[k][2] # 0
  /\ cache # matvec(A, AddAt(x, hist[3][1], Array(<<>>, 0 - hist[3][2])))

====
